---- MODULE Spec2Model ----
(***************************************************************************)
(* Model of dashboard.py (Hi-C Tools Explorer): the README parser          *)
(* parse_readme with its st.cache_data memoisation, and the search and     *)
(* category filter of main.                                                *)
(*                                                                         *)
(* Text is a sequence of one-character strings, so that splitting,         *)
(* trimming, lower-casing and the two regular expressions are computed     *)
(* character by character as the Python code computes them.                *)
(***************************************************************************)
EXTENDS Naturals, Sequences, FiniteSets

VARIABLES
    readme,             \* the file README.md: [status, text]
    cache,              \* st.cache_data store of parse_readme: <<>> or <<result>>
    readme_error,       \* TRUE once st.error of parse_readme (line 128) was called
    tools,              \* main: flat record list returned by parse_readme
    categories,         \* main: category index returned by parse_readme
    search_query,       \* main: value of the search text input
    selected_category,  \* main: value of the category select box
    filtered_count,     \* main: the number of the "Showing" box
    filtered_tools,     \* main: the filtered record list
    shown               \* main: the messages main displayed in its last run

vars == <<readme, cache, readme_error, tools, categories, search_query,
          selected_category, filtered_count, filtered_tools, shown>>

----------------------------------------------------------------------------
(* Literals of the source.                                                 *)

NL == <<"\n">>
SectionSep == <<"\n","#","#"," ">>
General == <<"G","e","n","e","r","a","l">>
TableOfContent == <<"T","a","b","l","e"," ","o","f"," ","c","o","n","t","e","n","t">>
HowToView == <<"H","o","w"," ","t","o"," ","V","i","e","w"," ","T","h","i","s"," ","R","E","A","D","M","E">>
ExcludedCategories == {TableOfContent, HowToView}
All == <<"A","l","l">>
AnchorOpen == <<"<","a"," ","n","a","m","e","=","\"">>
AnchorClose == <<"\"",">">>
DetailsTag == <<"<","d","e","t","a","i","l","s",">">>
Ellipsis == <<".",".",".">>
DashSpace == <<"-"," ">>
DescCap == 300

\* The characters Python's str.strip() and the regex class \s treat as
\* whitespace, among those the model's texts use.
Whitespace == {" ", "\t", "\n"}

----------------------------------------------------------------------------
(* String helpers: what the Python built-ins do.                           *)

Min(S) == CHOOSE i \in S : \A j \in S : i <= j

Drop(s, n) == SubSeq(s, n + 1, Len(s))

Take(s, n) == SubSeq(s, 1, IF n < Len(s) THEN n ELSE Len(s))

\* p occurs in s at index i.
IsAt(s, p, i) == /\ i + Len(p) - 1 <= Len(s)
                 /\ SubSeq(s, i, i + Len(p) - 1) = p

StartsWith(s, p) == IsAt(s, p, 1)

\* str.find, 1-based; 0 when p does not occur.
Find(s, p) ==
    LET at == {i \in 1..Len(s) : IsAt(s, p, i)}
    IN  IF at = {} THEN 0 ELSE Min(at)

\* `p in s` of Python.
Contains(s, p) == p = <<>> \/ Find(s, p) # 0

\* str.split(sep) and re.split of a literal pattern, sep non-empty.
RECURSIVE Split(_, _)
Split(s, sep) ==
    LET k == Find(s, sep)
    IN  IF k = 0 THEN <<s>>
        ELSE <<SubSeq(s, 1, k - 1)>> \o Split(Drop(s, k + Len(sep) - 1), sep)

\* str.strip()
Strip(s) ==
    LET keep == {i \in 1..Len(s) : s[i] \notin Whitespace}
    IN  IF keep = {} THEN <<>>
        ELSE SubSeq(s, Min(keep), CHOOSE i \in keep : \A j \in keep : j <= i)

LowerChar(c) ==
    CASE c = "A" -> "a" [] c = "B" -> "b" [] c = "C" -> "c" [] c = "D" -> "d"
      [] c = "E" -> "e" [] c = "F" -> "f" [] c = "G" -> "g" [] c = "H" -> "h"
      [] c = "I" -> "i" [] c = "J" -> "j" [] c = "K" -> "k" [] c = "L" -> "l"
      [] c = "M" -> "m" [] c = "N" -> "n" [] c = "O" -> "o" [] c = "P" -> "p"
      [] c = "Q" -> "q" [] c = "R" -> "r" [] c = "S" -> "s" [] c = "T" -> "t"
      [] c = "U" -> "u" [] c = "V" -> "v" [] c = "W" -> "w" [] c = "X" -> "x"
      [] c = "Y" -> "y" [] c = "Z" -> "z" [] OTHER -> c

\* str.lower()
Lower(s) == [i \in 1..Len(s) |-> LowerChar(s[i])]

----------------------------------------------------------------------------
(* parse_readme: the two regular expressions.                              *)

\* The length of the longest prefix of s made of characters not in stop:
\* what a greedy negated class [^...]+ or [^...]* consumes.
SpanNot(s, stop) ==
    LET hit == {i \in 1..Len(s) : s[i] \in stop}
    IN  IF hit = {} THEN Len(s) ELSE Min(hit) - 1

\* The length of the longest prefix of s made of whitespace: \s*.
SpanWhitespace(s) ==
    LET hit == {i \in 1..Len(s) : s[i] \notin Whitespace}
    IN  IF hit = {} THEN Len(s) ELSE Min(hit) - 1

\* re.match(r'^([^#\n]+)', first_line): [matched, group1].
category_match(first_line) ==
    LET n == SpanNot(first_line, {"#", "\n"})
    IN  [matched |-> n >= 1, group1 |-> Take(first_line, n)]

\* One bracketed group  open [^close]+ close  at the start of s:
\* [matched, text, rest].
Delimited(s, open, close) ==
    LET body == Drop(s, 1)
        n    == SpanNot(body, {close})
    IN  IF Len(s) >= 1 /\ s[1] = open /\ n >= 1 /\ n < Len(body)
        THEN [matched |-> TRUE, text |-> Take(body, n), rest |-> Drop(body, n + 1)]
        ELSE [matched |-> FALSE, text |-> <<>>, rest |-> <<>>]

\* The optional group (?:<a name="([^"]+)">)? at the start of s:
\* [id, rest]; when the group does not match it consumes nothing.
OptionalAnchor(s) ==
    LET body == Drop(s, Len(AnchorOpen))
        n    == SpanNot(body, {"\""})
    IN  IF StartsWith(s, AnchorOpen) /\ n >= 1 /\ IsAt(body, AnchorClose, n + 1)
        THEN [id |-> Take(body, n), rest |-> Drop(body, n + Len(AnchorClose))]
        ELSE [id |-> <<>>, rest |-> s]

NoMatch == [matched |-> FALSE, id |-> <<>>, name |-> <<>>, url |-> <<>>, tail |-> <<>>]

\* Mutant of tool_match: the pattern -\s+ in place of -\s*.
tool_match_needs_space(line) ==
    IF ~StartsWith(line, <<"-">>) \/ SpanWhitespace(Drop(line, 1)) = 0 THEN NoMatch
    ELSE LET afterDash == Drop(line, 1)
             afterWs   == Drop(afterDash, SpanWhitespace(afterDash))
             anchor    == OptionalAnchor(afterWs)
             link      == Delimited(anchor.rest, "[", "]")
             target    == Delimited(link.rest, "(", ")")
         IN  IF link.matched /\ target.matched
             THEN [matched |-> TRUE, id |-> anchor.id, name |-> link.text,
                   url |-> target.text, tail |-> target.rest]
             ELSE NoMatch

\* re.match(r'^-\s*(?:<a name="([^"]+)">)?\[([^\]]+)\]\(([^)]+)\)', line):
\* [matched, id, name, url, tail], tail being line[tool_match.end():].
tool_match(line) ==
    IF ~StartsWith(line, <<"-">>) THEN NoMatch
    ELSE LET afterDash == Drop(line, 1)
             afterWs   == Drop(afterDash, SpanWhitespace(afterDash))
             anchor    == OptionalAnchor(afterWs)
             link      == Delimited(anchor.rest, "[", "]")
             target    == Delimited(link.rest, "(", ")")
         IN  IF link.matched /\ target.matched
             THEN [matched |-> TRUE, id |-> anchor.id, name |-> link.text,
                   url |-> target.text, tail |-> target.rest]
             ELSE NoMatch

----------------------------------------------------------------------------
(* parse_readme: the body of the function.                                 *)

EmptyDict == [k \in {} |-> <<>>]

\* Mutant of Truncate: >= in place of >.
TruncateOffByOne(description) ==
    IF Len(description) >= DescCap
    THEN Take(description, DescCap) \o Ellipsis
    ELSE description

\* description[:300] + "..." if len(description) > 300 else description
Truncate(description) ==
    IF Len(description) > DescCap
    THEN Take(description, DescCap) \o Ellipsis
    ELSE description

\* re.sub(r'<details>.*', '', description, flags=re.DOTALL)
StripDetails(description) ==
    LET k == Find(description, DetailsTag)
    IN  IF k = 0 THEN description ELSE Take(description, k - 1)

\* The description of an entry, from the text after its link.
Description(tail) ==
    LET d1 == Strip(tail)
        d2 == IF StartsWith(d1, DashSpace) THEN Strip(Drop(d1, 2)) ELSE d1
    IN  Truncate(StripDetails(d2))

\* The tool_info dictionary of a matching line.
ToolInfo(m, current_category) ==
    [name |-> m.name, url |-> m.url, category |-> current_category,
     description |-> Description(m.tail), id |-> m.id]

\* Mutant of AppendBucket: the bucket is assigned, not appended to.
AppendBucketOverwrite(cats, key, tool_info) ==
    [k \in DOMAIN cats \cup {key} |-> IF k = key THEN <<tool_info>> ELSE cats[k]]

\* categories[key].append(tool_info) on a defaultdict(list).
AppendBucket(cats, key, tool_info) ==
    [k \in DOMAIN cats \cup {key} |->
        IF k = key
        THEN (IF key \in DOMAIN cats THEN cats[key] ELSE <<>>) \o <<tool_info>>
        ELSE cats[k]]

\* The loop over the lines of one section, from line i on.
RECURSIVE ScanLines(_, _, _, _)
ScanLines(lines, i, current_category, acc) ==
    IF i > Len(lines) THEN acc
    ELSE LET m == tool_match(lines[i])
         IN  IF m.matched
             THEN LET tool_info == ToolInfo(m, current_category)
                  IN  ScanLines(lines, i + 1, current_category,
                          [tools |-> Append(acc.tools, tool_info),
                           categories |-> AppendBucket(acc.categories,
                                              current_category, tool_info)])
             ELSE ScanLines(lines, i + 1, current_category, acc)

\* The category in effect for a section, given the one carried into it.
SectionCategory(section, current_category) ==
    LET lines == Split(section, NL)
        m     == category_match(lines[1])
    IN  IF m.matched THEN Strip(m.group1) ELSE current_category

\* The loop over the sections, from section i on.
RECURSIVE ScanSections(_, _, _, _)
ScanSections(sections, i, current_category, acc) ==
    IF i > Len(sections) THEN acc
    ELSE LET category == SectionCategory(sections[i], current_category)
         IN  IF category \in ExcludedCategories
             THEN ScanSections(sections, i + 1, category, acc)
             ELSE ScanSections(sections, i + 1, category,
                      ScanLines(Split(sections[i], NL), 1, category, acc))

\* The lines the inner loop visits, in order: those of the sections that
\* are not skipped, from section i on.
RECURSIVE ScannedLines(_, _, _)
ScannedLines(sections, i, current_category) ==
    IF i > Len(sections) THEN <<>>
    ELSE LET category == SectionCategory(sections[i], current_category)
         IN  (IF category \in ExcludedCategories THEN <<>>
              ELSE Split(sections[i], NL))
             \o ScannedLines(sections, i + 1, category)

\* The try block, on the text read from the file.
ParseContent(content) ==
    LET r == ScanSections(Split(content, SectionSep), 1, General,
                          [tools |-> <<>>, categories |-> EmptyDict])
    IN  [tools |-> r.tools, categories |-> r.categories, error |-> FALSE]

\* Mutant of OnReadError: the exception is swallowed without st.error.
OnReadErrorSilent == [tools |-> <<>>, categories |-> EmptyDict, error |-> FALSE]

\* The except block: st.error and return [], {}.
OnReadError == [tools |-> <<>>, categories |-> EmptyDict, error |-> TRUE]

\* One execution of the undecorated function on the file as it is.
ParseReadmeBody(file) ==
    IF file.status = "ok" THEN ParseContent(file.text) ELSE OnReadError

----------------------------------------------------------------------------
(* main: the filter and the messages.                                      *)

\* Mutant of MatchesQuery: the fields are not lower-cased.
MatchesQueryCaseSensitive(t, q) ==
    \/ Contains(t.name, Lower(q))
    \/ Contains(t.description, Lower(q))
    \/ Contains(t.category, Lower(q))

\* The test of the search comprehension, lines 208-210.
MatchesQuery(t, q) ==
    \/ Contains(Lower(t.name), Lower(q))
    \/ Contains(Lower(t.description), Lower(q))
    \/ Contains(Lower(t.category), Lower(q))

\* if search_query: filtered_tools = [...]
SearchFilter(ts, q) ==
    LET Test(t) == MatchesQuery(t, q)
    IN  IF q # <<>> THEN SelectSeq(ts, Test) ELSE ts

\* if selected_category != "All": filtered_tools = [...]
CategoryFilter(ts, c) ==
    LET Test(t) == t.category = c
    IN  IF c # All THEN SelectSeq(ts, Test) ELSE ts

\* Lines 203-214.
FilterTools(ts, q, c) == CategoryFilter(SearchFilter(ts, q), c)

\* Lines 190-192: the number in the "Showing" box.
FilteredCount(ts, cats, c) ==
    IF c # All
    THEN (IF c \in DOMAIN cats THEN Len(cats[c]) ELSE 0)
    ELSE Len(ts)

\* Mutant of Messages: the return of line 152 is missing.
MessagesNoReturn(ts, filtered) ==
    (IF ts = <<>> THEN {"no_tools_found"} ELSE {})
    \cup (IF filtered = <<>> THEN {"no_tools_match"} ELSE {"showing"})

\* The messages of one run: the error and return of lines 150-152, the
\* warning and return of lines 217-219, the heading of line 221.
Messages(ts, filtered) ==
    IF ts = <<>> THEN {"no_tools_found"}
    ELSE IF filtered = <<>> THEN {"no_tools_match"}
    ELSE {"showing"}

----------------------------------------------------------------------------
(* The inputs: the files README.md can be, and what the user can type.     *)

MaxLines == 3
DescSlack == 1

LineAligners == <<"#","#"," ","A","l","i","g","n","e","r","s">>
LineToc == <<"#","#"," ","T","a","b","l","e"," ","o","f"," ","c","o","n","t","e","n","t">>
LineHowTo == <<"#","#"," ","H","o","w"," ","t","o"," ","V","i","e","w"," ","T","h","i","s"," ","R","E","A","D","M","E">>
LineBlankHeading == <<"#","#"," "," ">>
LineToolA == <<"-"," ","[","T","o","o","l","A","]","(","h","t","t","p",":","/","/","a",")"," ","-"," ","F","a","s","t">>
LineNoSpace == <<"-","<","a"," ","n","a","m","e","=","\"","c","\"",">","[","b","]","(","u",")"," ","x","<","d","e","t","a","i","l","s",">","y">>
LineAnchored == <<"-"," ","<","a"," ","n","a","m","e","=","\"","d","\"",">","[","T","o","o","l","D","]","(","h","t","t","p",":","/","/","d",")">>
LineIndented == <<" ","-"," ","[","D","]","(","u",")">>
LineMalformed == <<"-"," ","[","E","(","u",")">>
LineToolB == <<"-"," ","[","T","o","o","l","B","]","(","h","t","t","p",":","/","/","b",")"," ","H","a","n","d","l","e","s">>
LineIgnored == <<"-"," ","[","I","g","n","o","r","e","d","]","(","h","t","t","p",":","/","/","x",")"," ","n","o">>
LineEntryHeading == <<"#","#"," ","-","[","h","]","(","u",")">>
LineTitle == <<"#"," ","T","o","o","l","s">>
LineGeneral == <<"#","#"," ","G","e","n","e","r","a","l">>
LongHead == <<"-"," ","[","L","]","(","u",")"," ","-"," ">>
LongTail == <<"<","d","e","t","a","i","l","s",">","z","z">>

Lines == {LineAligners, LineToc, LineBlankHeading, LineToolA, LineNoSpace,
          LineIndented, LineMalformed}

RECURSIVE Join(_)
Join(ls) == IF Len(ls) = 1 THEN ls[1] ELSE ls[1] \o NL \o Join(Tail(ls))

\* Every text of one to MaxLines lines of Lines.
ShortDocs == {Join(ls) : ls \in UNION {[1..n -> Lines] : n \in 1..MaxLines}}

\* A description of n characters with no whitespace, dot or tag in it.
Fill(n) == [i \in 1..n |-> IF i % 3 = 0 THEN "c" ELSE IF i % 3 = 1 THEN "a" ELSE "b"]

\* One entry whose description is around the cap, alone and followed by a
\* details block.
LongDocs ==
    UNION {{LongHead \o Fill(n), LongHead \o Fill(n) \o LongTail} :
              n \in (DescCap - 1)..(DescCap + DescSlack)}

\* The example document of the specification, and a document with the
\* second navigational heading.
ExampleDoc == Join(<<LineAligners, LineToolA, LineToolB, LineToc, LineIgnored>>)
HowToDoc == Join(<<LineToolB, LineHowTo, LineIgnored, LineAligners, LineToolA>>)

\* A document laid out as the repository's README is: a title, entries, headings.
ReadmeLikeDoc ==
    Join(<<LineTitle, LineToolB, LineMalformed, LineAligners, LineToolA,
           LineGeneral, LineAnchored>>)

\* A document whose second heading reads as an entry.
OddDoc == Join(<<LineIndented, LineEntryHeading, LineToolA>>)

Docs == ShortDocs \cup LongDocs \cup {ExampleDoc, HowToDoc, ReadmeLikeDoc, OddDoc}

Readable(text) == [status |-> "ok", text |-> text]
Missing == [status |-> "missing", text |-> <<>>]
Undecodable == [status |-> "undecodable", text |-> <<>>]

Files == {Readable(d) : d \in Docs} \cup {Missing, Undecodable}

\* The files the README is rewritten to while the dashboard runs.
EditedFiles == {Missing, Readable(ExampleDoc), Readable(HowToDoc),
                Readable(ReadmeLikeDoc), Readable(LineIndented)}

QTool == <<"T","O","O","L">>
QFast == <<"f","a","s","t">>
QAlign == <<"a","l","i","g","n">>
Queries == {<<>>, QTool, QFast, QAlign}

----------------------------------------------------------------------------
(* The state machine.                                                      *)

Fresh ==
    /\ cache = <<>>
    /\ readme_error = FALSE
    /\ tools = <<>>
    /\ categories = EmptyDict
    /\ search_query = <<>>
    /\ selected_category = All
    /\ filtered_count = 0
    /\ filtered_tools = <<>>
    /\ shown = {}

Init == readme \in Files /\ Fresh

InitEdits == readme \in EditedFiles /\ Fresh

\* The call parse_readme() of line 148 through st.cache_data: the body runs
\* only when nothing is stored for the function (it takes no argument, so
\* there is one entry), and what it returned and displayed is stored.
LoadData ==
    /\ cache' = IF Len(cache) = 0 THEN <<ParseReadmeBody(readme)>> ELSE cache
    /\ readme_error' = (readme_error \/ (Len(cache) = 0 /\ cache'[1].error))
    /\ tools' = cache'[1].tools
    /\ categories' = cache'[1].categories

\* Lines 150-221 with the widgets at q and c: without tools main returns
\* before it creates them.
Display(q, c) ==
    IF tools' = <<>>
    THEN /\ q = <<>>   \* no widget is read: one step, whatever was typed
         /\ c = All
         /\ search_query' = <<>>
         /\ selected_category' = All
         /\ filtered_count' = 0
         /\ filtered_tools' = <<>>
         /\ shown' = Messages(tools', <<>>)
    ELSE /\ search_query' = q
         /\ selected_category' = c
         /\ filtered_count' = FilteredCount(tools', categories', c)
         /\ filtered_tools' = FilterTools(tools', q, c)
         /\ shown' = Messages(tools', filtered_tools')

\* One run of main: the select box offers "All" and the categories.
main ==
    /\ LoadData
    /\ \E q \in Queries : \E c \in {All} \cup DOMAIN categories' : Display(q, c)
    /\ UNCHANGED readme

\* README.md is rewritten, removed or corrupted between two runs.
WriteReadme(file) ==
    /\ file # readme
    /\ readme' = file
    /\ UNCHANGED <<cache, readme_error, tools, categories, search_query,
                   selected_category, filtered_count, filtered_tools, shown>>

Edit == \E file \in EditedFiles : WriteReadme(file)

Next == main

NextEdits == main \/ Edit

Spec == Init /\ [][Next]_vars

SpecEdits == InitEdits /\ [][NextEdits]_vars

----------------------------------------------------------------------------
(* The claims.  The document is read line by line here, as the             *)
(* specification describes it, not section by section as the code does.    *)

Ran == shown # {}

\* The lines of README.md.
DocLines == Split(readme.text, NL)

\* The lines parse_readme looks at for entries: those of the sections it
\* retains, a heading without its "## " marker.
RetainedLines == ScannedLines(Split(readme.text, SectionSep), 1, General)

IsHeading(line) == StartsWith(line, <<"#", "#", " ">>)

\* The category the specification gives line k: the trimmed text of the
\* nearest heading line above it, "General" when there is none.
StatedCategory(ls, k) ==
    LET above == {j \in 1..(k - 1) : IsHeading(ls[j])}
    IN  IF above = {} THEN General
        ELSE Strip(Drop(ls[CHOOSE j \in above : \A h \in above : h <= j], 3))

\* The lines of ls that are entries.
EntryLines(ls) == {k \in 1..Len(ls) : tool_match(ls[k]).matched}

IsPrefix(p, s) == Len(p) <= Len(s) /\ SubSeq(s, 1, Len(p)) = p

\* p is a substring of s, said without str.find.
Occurs(p, s) == \E i \in 0..Len(s) : i + Len(p) <= Len(s) /\ SubSeq(s, i + 1, i + Len(p)) = p

\* C1: after a run on a readable document, every record is an entry line
\* of the document carrying, as its category, the trimmed text of the
\* nearest "## " heading above that line, "General" when no heading
\* precedes it.
C1_CategoryIsNearestHeading ==
    (Ran /\ readme.status = "ok") =>
        LET ls == DocLines
        IN  \A i \in 1..Len(tools) :
                \E k \in EntryLines(ls) :
                    LET m == tool_match(ls[k])
                    IN  /\ m.name = tools[i].name
                        /\ m.url = tools[i].url
                        /\ tools[i].category = StatedCategory(ls, k)

\* C2: after a run on a readable document, the records are exactly as many
\* as the entry lines that are not under a "Table of content" or "How to
\* View This README" heading, and neither name is a key of the index.
C2_ExcludedSectionsYieldNothing ==
    (Ran /\ readme.status = "ok") =>
        /\ LET ls == DocLines
           IN  Len(tools) = Cardinality({k \in EntryLines(ls) :
                                  StatedCategory(ls, k) \notin ExcludedCategories})
        /\ DOMAIN categories \cap ExcludedCategories = {}

\* C3: every run of main gets from the cached parse_readme the parse of
\* README.md as the file is at that run.
C3_LoadReturnsCurrentParse ==
    [][main => /\ tools' = ParseReadmeBody(readme).tools
               /\ categories' = ParseReadmeBody(readme).categories]_vars

\* C4: no record and no key of the index has an empty category.
C4_CategoryNeverEmpty ==
    /\ \A i \in 1..Len(tools) : tools[i].category # <<>>
    /\ \A c \in DOMAIN categories : c # <<>>

\* The description of an entry line before truncation: the text after the
\* link, trimmed, without a leading "- " and without what follows a
\* details tag.
OriginalDescription(tail) ==
    LET d1 == Strip(tail)
    IN  StripDetails(IF StartsWith(d1, DashSpace) THEN Strip(Drop(d1, 2)) ELSE d1)

\* Every record of ts is the record of an entry line of ls whose
\* description obeys Law.
FromLinesObeying(ts, ls, Law(_, _)) ==
    \A i \in 1..Len(ts) :
        \E k \in 1..Len(ls) :
            LET m == tool_match(ls[k])
            IN  /\ m.matched
                /\ m.name = ts[i].name
                /\ m.url = ts[i].url
                /\ Law(OriginalDescription(m.tail), ts[i].description)

\* The truncation law as the specification states it.
StatedTruncation(original, description) ==
    IF Len(original) > DescCap
    THEN Len(description) = DescCap + 3 /\ IsPrefix(description, original)
    ELSE description = original

\* The truncation law as amended: the first 300 characters, then "...".
AmendedTruncation(original, description) ==
    IF Len(original) > DescCap
    THEN /\ Len(description) = DescCap + 3
         /\ IsPrefix(SubSeq(description, 1, DescCap), original)
         /\ SubSeq(description, DescCap + 1, DescCap + 3) = Ellipsis
    ELSE description = original

\* C5 as stated: a description longer than 300 characters comes out with
\* length 303 and as a prefix of the original; a shorter one unchanged.
C5_TruncatedIsPrefix ==
    (Ran /\ readme.status = "ok") =>
        FromLinesObeying(tools, RetainedLines, StatedTruncation)

\* C5 as amended: a description longer than 300 characters comes out as
\* its first 300 characters followed by "...", of length 303; a shorter one
\* unchanged.
C5_TruncatedIsPrefixPlusEllipsis ==
    (Ran /\ readme.status = "ok") =>
        FromLinesObeying(tools, RetainedLines, AmendedTruncation)

C5_Witness ==
    /\ Ran
    /\ readme.status = "ok"
    /\ Len(tools) = 1
    /\ Len(DocLines) = 1
    /\ Len(OriginalDescription(tool_match(DocLines[1]).tail)) > DescCap
    /\ Len(tools[1].description) = DescCap + 3

\* The two predicates of the specification's filter.
TextPredicate(t, q) ==
    \/ q = <<>>
    \/ Occurs(Lower(q), Lower(t.name))
    \/ Occurs(Lower(q), Lower(t.description))
    \/ Occurs(Lower(q), Lower(t.category))

CategoryPredicate(t, c) == c = All \/ t.category = c

Selected(ts, q, c) ==
    LET Test(t) == TextPredicate(t, q) /\ CategoryPredicate(t, c)
    IN  SelectSeq(ts, Test)

\* C6: the filtered list of a run is the subsequence of the records that
\* satisfy the text predicate and the category predicate; with an empty
\* query and "All" it is the whole list; it is never longer than the list;
\* the two filters commute.
C6_FilterIsConjunctiveSubsequence ==
    (Ran /\ tools # <<>>) =>
        /\ filtered_tools = Selected(tools, search_query, selected_category)
        /\ Len(filtered_tools) <= Len(tools)
        /\ (search_query = <<>> /\ selected_category = All) => filtered_tools = tools
        /\ filtered_tools = SearchFilter(CategoryFilter(tools, selected_category),
                                         search_query)

C6_Witness ==
    /\ Ran
    /\ search_query = QTool
    /\ selected_category # All
    /\ filtered_tools # <<>>
    /\ Len(filtered_tools) < Len(tools)

\* C7: after a run on a file that cannot be read, main holds the empty
\* result, the stored result is the empty one, and the error of
\* parse_readme was displayed; the run ends with the "no tools found"
\* message like any other run without tools.
C7_ReadFailureGivesEmptyResult ==
    (Ran /\ readme.status # "ok") =>
        /\ tools = <<>>
        /\ DOMAIN categories = {}
        /\ cache[1].tools = <<>>
        /\ DOMAIN cache[1].categories = {}
        /\ readme_error
        /\ shown = {"no_tools_found"}

C7_Witness == Ran /\ readme.status = "undecodable" /\ readme_error /\ tools = <<>>

\* C8: a run shows "no tools match" only with a non-empty record list,
\* "no tools found" only with an empty one, and never both.
C8_NoMatchDistinctFromUnavailable ==
    /\ "no_tools_match" \in shown => tools # <<>>
    /\ "no_tools_found" \in shown => tools = <<>>
    /\ ~({"no_tools_match", "no_tools_found"} \subseteq shown)
    /\ (Ran /\ tools = <<>>) => "no_tools_found" \in shown

C8_Witness ==
    /\ shown = {"no_tools_match"}
    /\ tools # <<>>
    /\ filtered_tools = <<>>
    /\ readme.status = "ok"

WithCategory(ts, c) == LET Test(t) == t.category = c IN SelectSeq(ts, Test)

RECURSIVE SumOfSizes(_, _)
SumOfSizes(cats, keys) ==
    IF keys = {} THEN 0
    ELSE LET k == CHOOSE x \in keys : TRUE
         IN  Len(cats[k]) + SumOfSizes(cats, keys \ {k})

\* C9: every bucket of the index is the subsequence of the flat list with
\* that category and is not empty, the keys are the categories of the flat
\* list, the bucket sizes add up to the length of the flat list, and the
\* "Showing" number of a run is the number of records of the selected
\* category, whatever the query.
C9_IndexConsistentWithFlatList ==
    /\ DOMAIN categories = {tools[i].category : i \in 1..Len(tools)}
    /\ \A c \in DOMAIN categories :
           categories[c] = WithCategory(tools, c) /\ categories[c] # <<>>
    /\ SumOfSizes(categories, DOMAIN categories) = Len(tools)
    /\ (Ran /\ tools # <<>>) =>
           filtered_count = IF selected_category = All THEN Len(tools)
                            ELSE Len(WithCategory(tools, selected_category))

C9_Witness ==
    /\ Ran
    /\ Cardinality(DOMAIN categories) >= 2
    /\ selected_category # All
    /\ search_query = QFast
    /\ filtered_tools = <<>>
    /\ filtered_count = 2
    /\ \E i, j, k \in 1..Len(tools) :
           /\ i < j /\ j < k
           /\ tools[i].category = selected_category
           /\ tools[j].category # selected_category
           /\ tools[k].category = selected_category

\* s begins with a link [text](target), text and target not empty.
LinkAt(s) ==
    \E i \in 3..Len(s) :
        /\ s[1] = "[" /\ s[i] = "]"
        /\ \A k \in 2..(i - 1) : s[k] # "]"
        /\ \E j \in (i + 3)..Len(s) :
               /\ s[i + 1] = "(" /\ s[j] = ")"
               /\ \A k \in (i + 2)..(j - 1) : s[k] # ")"

\* s begins with an anchor tag <a name="id">, id not empty, then a link.
AnchoredLinkAt(s) ==
    \E n \in 1..Len(s) :
        /\ IsPrefix(AnchorOpen, s)
        /\ n + Len(AnchorOpen) + 2 <= Len(s)
        /\ \A k \in 1..n : s[Len(AnchorOpen) + k] # "\""
        /\ s[Len(AnchorOpen) + n + 1] = "\""
        /\ s[Len(AnchorOpen) + n + 2] = ">"
        /\ LinkAt(Drop(s, Len(AnchorOpen) + n + 2))

\* A hyphen, at least least whitespace characters, of which the first
\* least are spaces, then a link or an anchored link.
IsEntryLine(line, least) ==
    \E w \in least..Len(line) :
        /\ Len(line) >= 1 + w
        /\ line[1] = "-"
        /\ \A k \in 1..least : line[1 + k] = " "
        /\ \A k \in 1..w : line[1 + k] \in Whitespace
        /\ LinkAt(Drop(line, 1 + w)) \/ AnchoredLinkAt(Drop(line, 1 + w))

\* The text of the entry that record t was made from, after the hyphen and
\* the whitespace.
EntryText(t) ==
    (IF t.id # <<>> THEN AnchorOpen \o t.id \o AnchorClose ELSE <<>>)
    \o <<"[">> \o t.name \o <<"]", "(">> \o t.url \o <<")">>

IsRecordOf(t, line) ==
    \E w \in 0..Len(line) :
        /\ Len(line) >= 1 + w
        /\ \A k \in 1..w : line[1 + k] \in Whitespace
        /\ IsPrefix(EntryText(t), Drop(line, 1 + w))

\* The lines of the retained sections that are entries, in order.
RetainedEntries(least) ==
    LET Test(line) == IsEntryLine(line, least)
    IN  SelectSeq(RetainedLines, Test)

\* The records ts are, one for one and in order, the records of entries.
AreRecordsOf(ts, entries) ==
    /\ Len(ts) = Len(entries)
    /\ \A i \in 1..Len(ts) : IsRecordOf(ts[i], entries[i])

\* C10 as stated: the records are, one for one and in order, the lines of
\* the retained sections that begin with "- ", then an optional anchor tag,
\* then a link.
C10_EntriesNeedHyphenSpace ==
    (Ran /\ readme.status = "ok") =>
        AreRecordsOf(tools, RetainedEntries(1))

\* C10 as amended: the records are, one for one and in order, the lines of
\* the retained sections that begin with "-", then any whitespace (none
\* included), then an optional anchor tag, then a link.
C10_EntriesNeedHyphen ==
    (Ran /\ readme.status = "ok") =>
        AreRecordsOf(tools, RetainedEntries(0))

C10_Witness ==
    /\ Ran
    /\ readme.status = "ok"
    /\ \E i \in 1..Len(tools) : tools[i].name = <<"b">> /\ tools[i].id = <<"c">>
    /\ \E i \in 1..Len(tools) : tools[i].id = <<>>
    /\ \E k \in 1..Len(DocLines) : DocLines[k] = LineIndented

====
